---- MODULE Spec2Model ----
(***************************************************************************)
(* A model of state_income_tax/ingest.py: the field normalizers            *)
(* (get_state_code, clean_deduction, extract_codes), the state block       *)
(* extractor (extract_deductions, extract_notes, process_state), the sheet *)
(* segmenter (process_sheet) and the year driver (main).                   *)
(*                                                                         *)
(* Text is a sequence of one-character strings, so that lower(), replace(),*)
(* split() and strip() are computed character by character.  A cell value  *)
(* is a record [t, n, s]: t is "none", "int" or "str", n the number and s  *)
(* the text.                                                               *)
(***************************************************************************)
EXTENDS Integers, Sequences, FiniteSets, TLC

VARIABLES
    pc,          \* position of the run: main's control point, or the harness's
    sheetnames,  \* wb.sheetnames
    sheet,       \* the rows sheet.iter_rows() yields for the selected sheet
    i,           \* index (1-based) of the next row of the for loop
    state_rows,  \* process_sheet's accumulator
    states,      \* process_sheet's dict, as a sequence of [key, data] in insertion order
    results,     \* main's dict year -> YearResult, same representation
    written,     \* what write_json received
    exc,         \* the exception that ended the run, "" when none
    fn,          \* the function under call in FnSpec, "main" in Spec
    arg,         \* its argument
    ret          \* its result

vars == <<pc, sheetnames, sheet, i, state_rows, states, results, written, exc, fn, arg, ret>>

----------------------------------------------------------------------------
(* Values *)

None == [t |-> "none", n |-> 0, s |-> <<>>]
IntV(n) == [t |-> "int", n |-> n, s |-> <<>>]
StrV(s) == [t |-> "str", n |-> 0, s |-> s]

\* Python truthiness of a cell value: None, 0 and "" are false.  Numbers are
\* integers here; a float 0.0 is false in the same way.
Truthy(v) == \/ v.t = "int" /\ v.n # 0
             \/ v.t = "str" /\ v.s # <<>>

----------------------------------------------------------------------------
(* Text primitives (str methods) *)

UpperChars == <<"A","B","C","D","E","F","G","H","I","J","K","L","M",
                "N","O","P","Q","R","S","T","U","V","W","X","Y","Z">>
LowerChars == <<"a","b","c","d","e","f","g","h","i","j","k","l","m",
                "n","o","p","q","r","s","t","u","v","w","x","y","z">>
Digits == <<"0","1","2","3","4","5","6","7","8","9">>

IndexIn(c, chars) == IF \E k \in DOMAIN chars : chars[k] = c
                     THEN CHOOSE k \in DOMAIN chars : chars[k] = c
                     ELSE 0

LowerChar(c) == IF IndexIn(c, UpperChars) # 0 THEN LowerChars[IndexIn(c, UpperChars)] ELSE c

\* str.lower()
Lower(s) == [k \in DOMAIN s |-> LowerChar(s[k])]

\* w in s
Contains(s, w) == \E k \in 1..(Len(s) - Len(w) + 1) : SubSeq(s, k, k + Len(w) - 1) = w

\* s.replace(w, ""), w non-empty: leftmost non-overlapping occurrences
RECURSIVE Remove(_, _)
Remove(s, w) ==
    IF Len(s) < Len(w) THEN s
    ELSE IF SubSeq(s, 1, Len(w)) = w THEN Remove(SubSeq(s, Len(w) + 1, Len(s)), w)
    ELSE <<Head(s)>> \o Remove(Tail(s), w)

\* s.split(c) for a one-character separator: always at least one piece
RECURSIVE Split(_, _)
Split(s, c) ==
    IF \A k \in DOMAIN s : s[k] # c THEN <<s>>
    ELSE LET k == CHOOSE j \in DOMAIN s : s[j] = c /\ \A h \in 1..(j - 1) : s[h] # c
         IN  <<SubSeq(s, 1, k - 1)>> \o Split(SubSeq(s, k + 1, Len(s)), c)

\* s.strip(): the blank is the only whitespace of the alphabet
RECURSIVE LStrip(_)
LStrip(s) == IF s # <<>> /\ Head(s) = " " THEN LStrip(Tail(s)) ELSE s
RECURSIVE RStrip(_)
RStrip(s) == IF s # <<>> /\ s[Len(s)] = " " THEN RStrip(SubSeq(s, 1, Len(s) - 1)) ELSE s
Strip(s) == RStrip(LStrip(s))

RECURSIVE DigitsValue(_)
DigitsValue(s) == IF s = <<>> THEN 0
                  ELSE 10 * DigitsValue(SubSeq(s, 1, Len(s) - 1)) + (IndexIn(s[Len(s)], Digits) - 1)

AllDigits(s) == s # <<>> /\ \A k \in DOMAIN s : IndexIn(s[k], Digits) # 0

\* int(s): surrounding blanks and one sign are accepted, then decimal digits;
\* anything else raises ValueError (ok = FALSE).
ParseInt(s) ==
    LET t == Strip(s)
        signed == t # <<>> /\ Head(t) \in {"+", "-"}
        body == IF signed THEN Tail(t) ELSE t
    IN  IF AllDigits(body)
        THEN [ok |-> TRUE, n |-> IF signed /\ Head(t) = "-" THEN 0 - DigitsValue(body) ELSE DigitsValue(body)]
        ELSE [ok |-> FALSE, n |-> 0]

----------------------------------------------------------------------------
(* Field normalizers *)

Txt_alabama == <<"a","l","a","b","a","m","a">>
Txt_alaska == <<"a","l","a","s","k","a">>
Txt_maryland == <<"m","a","r","y","l","a","n","d">>
Txt_colorado == <<"c","o","l","o","r","a","d","o">>

\* constants.STATE_CODE_MAP: lower-case display name -> two-letter code
\* (the entries the input sets below use).
STATE_CODE_MAP ==
    << [name |-> Txt_alabama, code |-> "AL"],
       [name |-> Txt_alaska, code |-> "AK"],
       [name |-> Txt_colorado, code |-> "CO"],
       [name |-> Txt_maryland, code |-> "MD"] >>

\* dict.get(key, default)
MapGet(map, key, default) ==
    IF \E k \in DOMAIN map : map[k].name = key
    THEN map[CHOOSE k \in DOMAIN map : map[k].name = key].code
    ELSE default

\* get_state_code(value), value None or text
get_state_code(value) ==
    IF ~Truthy(value) THEN ""
    ELSE LET safe_value == Split(Remove(Lower(value.s), <<".">>), "(")[1]
         IN  MapGet(STATE_CODE_MAP, safe_value, "")

Txt_credit == <<"c","r","e","d","i","t">>
Txt_na == <<"n","a">>

Entry(v, c) == [exc |-> "", value |-> v, credit |-> c]
RaiseEntry(e) == [exc |-> e, value |-> None, credit |-> FALSE]

\* clean_deduction(value), value None, an int or text
clean_deduction(value) ==
    IF value.t = "int" THEN Entry(value, FALSE)
    ELSE IF ~Truthy(value) \/ Remove(Strip(Lower(value.s)), <<".">>) = Txt_na
    THEN Entry(None, FALSE)
    ELSE IF Contains(Lower(value.s), Txt_credit)
    THEN LET v == Strip(Remove(Remove(Remove(value.s, Txt_credit), <<"$">>), <<",">>))
             parsed == ParseInt(v)
         IN  IF parsed.ok THEN Entry(IntV(parsed.n), TRUE) ELSE RaiseEntry("ValueError")
    ELSE Entry(value, FALSE)

----------------------------------------------------------------------------
(* Cells and rows.  A row is a function from the column index 0..NCols-1   *)
(* to a cell; a MergedCell has no value of its own.                        *)

NCols == 14

Cell(v) == [value |-> v, merged |-> FALSE]
MergedCell == [value |-> None, merged |-> TRUE]

NoRow == <<>>   \* the None that process_state passes for a missing second row

\* [x for x in seq if x truthy], over a sequence of cell values
TruthyValues(seq) == SelectSeq(seq, Truthy)

\* extract_deductions(row)
extract_deductions(row) ==
    LET ss == clean_deduction(row[7].value)
        sm == clean_deduction(row[8].value)
        ps == clean_deduction(row[9].value)
        pm == clean_deduction(row[10].value)
        pd == clean_deduction(row[11].value)
        all == <<ss, sm, ps, pm, pd>>
    IN  IF \E k \in 1..5 : all[k].exc # ""
        THEN [exc |-> all[CHOOSE k \in 1..5 : all[k].exc # "" /\ \A h \in 1..(k - 1) : all[h].exc = ""].exc,
              standard_deductions |-> <<>>, personal_exemptions |-> <<>>]
        ELSE [exc |-> "",
              standard_deductions |-> [single |-> ss, married |-> sm],
              personal_exemptions |-> [single |-> ps, married |-> pm, dependant |-> pd]]

\* extract_codes(row)
extract_codes(row) ==
    IF row[0].value.t = "str" /\ Contains(row[0].value.s, <<"(">>)
    THEN LET code_str == Remove(Split(row[0].value.s, "(")[2], <<")">>)
             pieces == Split(code_str, ",")
         IN  [k \in DOMAIN pieces |-> Strip(pieces[k])]
    ELSE <<>>

\* the notes of one row: [cell.value for cell in row[12:] if cell.value]
RowNotes(row) == TruthyValues([k \in 1..(NCols - 12) |-> row[11 + k].value])

\* extract_notes(row1, row2): row2 is NoRow when the block has one row, and
\* slicing it raises TypeError after row1 has been read.
extract_notes(row1, row2) ==
    IF row2 = NoRow
    THEN [exc |-> "TypeError", notes |-> <<>>, note_codes |-> <<>>]
    ELSE [exc |-> "",
          notes |-> RowNotes(row1) \o RowNotes(row2),
          note_codes |-> extract_codes(row1) \o extract_codes(row2)]

----------------------------------------------------------------------------
(* State block extractor *)

key_cols == {1, 3, 4, 6}

\* any([x.value for idx, x in enumerate(row) if idx in key_cols])
IsDataRow(row) == \E idx \in key_cols : Truthy(row[idx].value)

SingleRung(row) == [rate |-> row[1].value, start_value |-> row[3].value]
MarriedRung(row) == [rate |-> row[4].value, start_value |-> row[6].value]

\* A slip that appends the married rung only when a married column is set.
MarriedMutant(rows) ==
    LET data == SelectSeq(rows, LAMBDA row : Truthy(row[4].value) \/ Truthy(row[6].value))
    IN  [k \in DOMAIN data |-> MarriedRung(data[k])]

\* the single list of the standard branch
SingleBrackets(rows) ==
    LET data == SelectSeq(rows, IsDataRow)
    IN  [k \in DOMAIN data |-> SingleRung(data[k])]

\* the married list of the standard branch
MarriedBrackets(rows) ==
    LET data == SelectSeq(rows, IsDataRow)
    IN  [k \in DOMAIN data |-> MarriedRung(data[k])]

Returned(code, data) == [exc |-> "", state_code |-> code, data |-> data]
Raised(e) == [exc |-> e, state_code |-> "", data |-> <<>>]

\* process_state(rows): rows is the non-empty block, rows[1] its first row
process_state(rows) ==
    LET state_code == get_state_code(rows[1][0].value)
        deductions == extract_deductions(rows[1])
        en == extract_notes(rows[1], IF Len(rows) > 1 THEN rows[2] ELSE NoRow)
    IN  IF deductions.exc # "" THEN Raised(deductions.exc)
        ELSE IF en.exc # "" THEN Raised(en.exc)
        ELSE IF rows[1][2].merged
        THEN Returned(state_code,
                      [single |-> <<>>,
                       married |-> <<>>,
                       notes |-> Append(en.notes, rows[1][1].value),
                       note_codes |-> en.note_codes,
                       deductions |-> deductions])
        ELSE Returned(state_code,
                      [single |-> SingleBrackets(rows),
                       married |-> MarriedBrackets(rows),
                       note_codes |-> en.note_codes,
                       notes |-> en.notes,
                       deductions |-> deductions])

----------------------------------------------------------------------------
(* Input sets *)

(* Texts of the input sets *)

TXT_SP_A == <<" ","(","a",")">>
TXT_A == <<"(","a",")">>
TXT_State == <<"S","t","a","t","e">>
TXT_N_A == <<"N","/","A">>
TXT_n_a == <<"n","/","a">>
TXT_NA == <<"N","A">>
TXT_N_A_dots == <<"N",".","A",".">>
TXT_na_sp == <<" ","n","a"," ">>
TXT_1_200 == <<"1",",","2","0","0">>
TXT_1200 == <<"1","2","0","0">>
TXT_50 == <<"5","0">>
TXT_x_credit == <<"x"," ","c","r","e","d","i","t">>
TXT_see_note == <<"s","e","e"," ","n","o","t","e">>
TXT_a_b == <<"a",","," ","b">>
TXT_ab == <<"a",",","b">>
TXT_sp_a_sp == <<" ","a"," ">>
TXT_sp_x == <<" ","x">>
TXT_sp_c == <<" ","(","c",")">>
TXT_open == <<" ","(","a">>
TXT_d1_200_credit == <<"$","1",",","2","0","0"," ","c","r","e","d","i","t">>
TXT_none == <<"n","o","n","e">>

MaxBlock == 3    \* rows of a block handed to process_state
MaxRows == 4     \* rows of a sheet
MaxSheets == 2   \* sheets of a workbook

UpperChar(c) == IF IndexIn(c, LowerChars) # 0 THEN UpperChars[IndexIn(c, LowerChars)] ELSE c
Upper(s) == [k \in DOMAIN s |-> UpperChar(s[k])]
Cap(s) == [k \in DOMAIN s |-> IF k = 1 THEN UpperChar(s[k]) ELSE s[k]]

\* the display names of the table's entries, as the publication prints them
TableNames == {Cap(STATE_CODE_MAP[k].name) : k \in DOMAIN STATE_CODE_MAP}

Casings(name) == {name, Upper(name), Lower(name)}
Dotted(name) == {name, name \o <<".">>, <<Head(name), ".">> \o Tail(name)}
Marked(name) == {name, name \o TXT_SP_A, name \o TXT_A}

\* a display name in its casing, punctuation and footnote-marker variants
Variants(name) == UNION {UNION {Marked(d) : d \in Dotted(c)} : c \in Casings(name)}

NameInputs ==
    {None, StrV(<<>>), StrV(TXT_State)} \cup {StrV(v) : v \in UNION {Variants(n) : n \in TableNames}}

NATexts == {TXT_N_A, TXT_n_a, TXT_NA, TXT_N_A_dots, TXT_na_sp, Txt_na}
CreditWords == {Txt_credit, Cap(Txt_credit), Upper(Txt_credit)}
Amounts == {TXT_1_200, TXT_1200, TXT_50}
Dollar == {<<>>, <<"$">>}
Blank == {<<>>, <<" ">>}

CreditTexts ==
    {p \o a \o b \o w : p \in Dollar, a \in Amounts, b \in Blank, w \in CreditWords}
    \cup {w \o <<" ">> \o p \o a : p \in Dollar, a \in Amounts, w \in CreditWords}

DeductionInputs ==
    {None, StrV(<<>>), IntV(0), IntV(4500)}
    \cup {StrV(t) : t \in NATexts}
    \cup {StrV(t) : t \in CreditTexts}
    \cup {StrV(Txt_credit), StrV(TXT_x_credit), StrV(TXT_see_note), StrV(TXT_1_200)}

CodeLists == {<<>>, <<"a">>, TXT_a_b, TXT_ab, TXT_sp_a_sp}
CodeTails == {<<>>, TXT_sp_x, TXT_sp_c}

Col0Inputs ==
    {None, IntV(5), StrV(Cap(Txt_colorado)), StrV(Cap(Txt_colorado) \o TXT_open)}
    \cup {StrV(Cap(Txt_colorado) \o b \o <<"(">> \o c \o <<")">> \o t) :
            b \in Blank, c \in CodeLists, t \in CodeTails}

\* a row from the cells it sets; every other cell is empty
Row(cells) == [c \in 0..(NCols - 1) |-> IF c \in DOMAIN cells THEN cells[c] ELSE Cell(None)]

R_alabama ==
    Row(0 :> Cell(StrV(Cap(Txt_alabama))) @@ 1 :> Cell(IntV(2)) @@ 3 :> Cell(IntV(0))
        @@ 4 :> Cell(IntV(2)) @@ 6 :> Cell(IntV(0)) @@ 7 :> Cell(IntV(3000))
        @@ 8 :> Cell(StrV(TXT_d1_200_credit)) @@ 12 :> Cell(StrV(TXT_see_note)))
R_maryland ==
    Row(0 :> Cell(StrV(Cap(Txt_maryland) \o TXT_A)) @@ 1 :> Cell(IntV(2)) @@ 3 :> Cell(IntV(0))
        @@ 4 :> Cell(IntV(2)) @@ 6 :> Cell(IntV(0)) @@ 9 :> Cell(StrV(TXT_NA)))
R_alaska ==
    Row(0 :> Cell(StrV(Cap(Txt_alaska))) @@ 1 :> Cell(StrV(TXT_none)) @@ 2 :> MergedCell
        @@ 3 :> MergedCell @@ 4 :> MergedCell @@ 5 :> MergedCell @@ 6 :> MergedCell)
R_colorado ==
    Row(0 :> Cell(StrV(Cap(Txt_colorado))) @@ 1 :> Cell(IntV(4)) @@ 3 :> Cell(IntV(0))
        @@ 4 :> Cell(IntV(4)) @@ 6 :> Cell(IntV(0)) @@ 7 :> Cell(StrV(TXT_x_credit)))
R_cont ==
    Row(1 :> Cell(IntV(4)) @@ 3 :> Cell(IntV(500)) @@ 4 :> Cell(IntV(4)) @@ 6 :> Cell(IntV(1000))
        @@ 13 :> Cell(StrV(TXT_see_note)))
R_single == Row(1 :> Cell(IntV(5)) @@ 3 :> Cell(IntV(900)))
R_zero == Row(1 :> Cell(IntV(0)) @@ 3 :> Cell(IntV(0)) @@ 4 :> Cell(IntV(0)) @@ 6 :> Cell(IntV(0)))
R_blank == Row(<<>>)
R_header == Row(0 :> Cell(StrV(TXT_State)) @@ 1 :> Cell(StrV(TXT_see_note)))
R_footer == Row(0 :> Cell(StrV(TXT_A \o TXT_sp_x)) @@ 1 :> MergedCell)

StartRows == {R_alabama, R_maryland, R_alaska, R_colorado}
OtherRows == {R_cont, R_single, R_zero, R_blank, R_header}

SeqsUpTo(S, n) == UNION {[1..k -> S] : k \in 0..n}

\* the blocks process_sheet can hand over: no footer row, and a state-start
\* row only in first place
Blocks ==
    {b \in SeqsUpTo(StartRows \cup OtherRows, MaxBlock) :
        /\ b # <<>>
        /\ \A k \in 2..Len(b) : b[k] \in OtherRows}

\* the rows of a sheet: state rows, continuation rows, a header row, the footer
SheetRows == StartRows \cup {R_cont, R_header, R_footer}

Sheets == SeqsUpTo(SheetRows, MaxRows)

----------------------------------------------------------------------------
(* Year driver and sheet segmenter: one run of main.  The script guard at  *)
(* lines 181-183 calls main twice with the same arguments; the second call *)
(* repeats the first, and one call is modelled.                            *)

TXT_2023 == <<"2","0","2","3">>
TXT_2022 == <<"2","0","2","2">>
TXT_Notes == <<"N","o","t","e","s">>

SheetNameInputs == {TXT_2023, TXT_2022, TXT_Notes}

\* wb.sheetnames: at least one sheet, no name twice
NameLists ==
    {l \in SeqsUpTo(SheetNameInputs, MaxSheets) :
        l # <<>> /\ \A a, b \in DOMAIN l : a # b => l[a] # l[b]}

\* code point order of the characters sheet names are made of
Ord(c) == IndexIn(c, Digits \o UpperChars \o LowerChars)

\* a < b for str
RECURSIVE TextLess(_, _)
TextLess(a, b) ==
    IF b = <<>> THEN FALSE
    ELSE IF a = <<>> THEN TRUE
    ELSE IF Head(a) # Head(b) THEN Ord(Head(a)) < Ord(Head(b))
    ELSE TextLess(Tail(a), Tail(b))

\* list.sort(reverse=True) on distinct names
RECURSIVE SortDesc(_)
SortDesc(l) ==
    IF l = <<>> THEN <<>>
    ELSE LET m == CHOOSE k \in DOMAIN l : \A h \in DOMAIN l : ~TextLess(l[k], l[h])
         IN  <<l[m]>> \o SortDesc(SubSeq(l, 1, m - 1) \o SubSeq(l, m + 1, Len(l)))

\* len(name) == 4 and name.startswith("20")
IsYearName(name) == Len(name) = 4 /\ SubSeq(name, 1, 2) = <<"2", "0">>

\* main's names after the sort
YearNames(all) == SortDesc(SelectSeq(all, IsYearName))

HasKey(d, key) == \E k \in DOMAIN d : d[k].key = key

\* d[key] = data: an existing key keeps its place
DictSet(d, key, data) ==
    IF HasKey(d, key)
    THEN [k \in DOMAIN d |-> IF d[k].key = key THEN [key |-> key, data |-> data] ELSE d[k]]
    ELSE Append(d, [key |-> key, data |-> data])

Init ==
    /\ pc = "start"
    /\ sheetnames \in NameLists
    /\ sheet = <<>>
    /\ i = 1
    /\ state_rows = <<>>
    /\ states = <<>>
    /\ results = <<>>
    /\ written = <<>>
    /\ exc = ""
    /\ fn = "main"
    /\ arg = None
    /\ ret = None

\* main, no year-named sheet: sys.exit(1)
NoYearSheet ==
    /\ pc = "start"
    /\ YearNames(sheetnames) = <<>>
    /\ pc' = "exit1"
    /\ UNCHANGED <<sheetnames, sheet, i, state_rows, states, results, written, exc, fn, arg, ret>>

\* main enters process_sheet with the most recent year's sheet
OpenSheet ==
    /\ pc = "start"
    /\ YearNames(sheetnames) # <<>>
    /\ \E rows \in Sheets : sheet' = rows
    /\ i' = 1
    /\ state_rows' = <<>>
    /\ states' = <<>>
    /\ pc' = "loop"
    /\ UNCHANGED <<sheetnames, results, written, exc, fn, arg, ret>>

\* the for loop reaches a row whose second cell is a MergedCell: break
ForBreak ==
    /\ pc = "loop"
    /\ i <= Len(sheet)
    /\ sheet[i][1].merged
    /\ pc' = "print"
    /\ UNCHANGED <<sheetnames, sheet, i, state_rows, states, results, written, exc, fn, arg, ret>>

\* one iteration of the for loop on any other row
ForRow ==
    /\ pc = "loop"
    /\ i <= Len(sheet)
    /\ ~sheet[i][1].merged
    /\ LET row == sheet[i]
           state_code == get_state_code(row[0].value)
           flushed == process_state(state_rows)
       IN  IF state_code # ""
           THEN IF state_rows # <<>>
                THEN IF flushed.exc # ""
                     THEN /\ pc' = "raised"
                          /\ exc' = flushed.exc
                          /\ UNCHANGED <<i, state_rows, states>>
                     ELSE /\ states' = DictSet(states, flushed.state_code, flushed.data)
                          /\ state_rows' = <<row>>
                          /\ i' = i + 1
                          /\ UNCHANGED <<pc, exc>>
                ELSE /\ state_rows' = <<row>>
                     /\ i' = i + 1
                     /\ UNCHANGED <<pc, exc, states>>
           ELSE /\ state_rows' = Append(state_rows, row)
                /\ i' = i + 1
                /\ UNCHANGED <<pc, exc, states>>
    /\ UNCHANGED <<sheetnames, sheet, results, written, fn, arg, ret>>

\* the rows are exhausted
ForEnd ==
    /\ pc = "loop"
    /\ i > Len(sheet)
    /\ pc' = "print"
    /\ UNCHANGED <<sheetnames, sheet, i, state_rows, states, results, written, exc, fn, arg, ret>>

\* print(json.dumps(states["MD"])); return states; results[name] = ...
PrintMD ==
    /\ pc = "print"
    /\ IF HasKey(states, "MD")
       THEN /\ results' = DictSet(results, YearNames(sheetnames)[1], states)
            /\ pc' = "write"
            /\ UNCHANGED exc
       ELSE /\ pc' = "raised"
            /\ exc' = "KeyError"
            /\ UNCHANGED results
    /\ UNCHANGED <<sheetnames, sheet, i, state_rows, states, written, fn, arg, ret>>

\* break out of the loop over names; write_json(args.dest_json, results)
WriteJson ==
    /\ pc = "write"
    /\ written' = <<results>>
    /\ pc' = "done"
    /\ UNCHANGED <<sheetnames, sheet, i, state_rows, states, results, exc, fn, arg, ret>>

Next == NoYearSheet \/ OpenSheet \/ ForBreak \/ ForRow \/ ForEnd \/ PrintMD \/ WriteJson

Spec == Init /\ [][Next]_vars

----------------------------------------------------------------------------
(* The normalizers and the extractor on their own: one call each *)

Idle ==
    /\ sheetnames = <<>>
    /\ sheet = <<>>
    /\ i = 1
    /\ state_rows = <<>>
    /\ states = <<>>
    /\ results = <<>>
    /\ written = <<>>
    /\ exc = ""

FnInit ==
    /\ pc = "call"
    /\ ret = None
    /\ Idle
    /\ \/ fn = "get_state_code" /\ arg \in NameInputs
       \/ fn = "clean_deduction" /\ arg \in DeductionInputs
       \/ fn = "extract_codes" /\ arg \in {Row(0 :> Cell(v)) : v \in Col0Inputs}
       \/ fn = "process_state" /\ arg \in Blocks

Return(value) ==
    /\ ret' = value
    /\ pc' = "returned"
    /\ UNCHANGED <<sheetnames, sheet, i, state_rows, states, results, written, exc, fn, arg>>

CallGetStateCode == pc = "call" /\ fn = "get_state_code" /\ Return(get_state_code(arg))
CallCleanDeduction == pc = "call" /\ fn = "clean_deduction" /\ Return(clean_deduction(arg))
CallExtractCodes == pc = "call" /\ fn = "extract_codes" /\ Return(extract_codes(arg))
CallProcessState == pc = "call" /\ fn = "process_state" /\ Return(process_state(arg))

FnNext == CallGetStateCode \/ CallCleanDeduction \/ CallExtractCodes \/ CallProcessState

FnSpec == FnInit /\ [][FnNext]_vars

----------------------------------------------------------------------------
(* What the specification says of each operation, stated without the code *)

\* s with every occurrence of w removed, whatever its letter case
RECURSIVE RemoveAnyCase(_, _)
RemoveAnyCase(s, w) ==
    IF Len(s) < Len(w) THEN s
    ELSE IF Lower(SubSeq(s, 1, Len(w))) = w THEN RemoveAnyCase(SubSeq(s, Len(w) + 1, Len(s)), w)
    ELSE <<Head(s)>> \o RemoveAnyCase(Tail(s), w)

\* the amount of a credit text: the word, dollar signs and separators stripped
CreditAmount(s) == ParseInt(Remove(Remove(RemoveAnyCase(s, Txt_credit), <<"$">>), <<",">>))

IsCreditText(v) == v.t = "str" /\ Contains(Lower(v.s), Txt_credit)

\* a credit cell whose remainder is no integer
Malformed(v) == IsCreditText(v) /\ ~CreditAmount(v.s).ok

NoMalformedCell(rows) == \A k \in DOMAIN rows : \A c \in 7..11 : ~Malformed(rows[k][c].value)

\* empty, or "N/A" in any case, with or without periods and blanks
IsEmptyOrNA(v) ==
    \/ v = None
    \/ v.t = "str" /\ v.s = <<>>
    \/ v.t = "str" /\ Strip(Remove(Remove(Lower(v.s), <<".">>), <<"/">>)) = Txt_na

\* the text between the first "(" and the ")" that closes it, cut at commas, trimmed
CodesOf(v) ==
    IF v.t = "str" /\ Contains(v.s, <<"(">>)
    THEN LET open == CHOOSE j \in DOMAIN v.s : v.s[j] = "(" /\ \A h \in 1..(j - 1) : v.s[h] # "("
             after == SubSeq(v.s, open + 1, Len(v.s))
             inner == Split(after, ")")[1]
             pieces == Split(inner, ",")
         IN  [k \in DOMAIN pieces |-> Strip(pieces[k])]
    ELSE <<>>

\* a cell that holds a value, 0 included
NonEmpty(v) == v.t = "int" \/ (v.t = "str" /\ v.s # <<>>)

Populated(row) == \E c \in {1, 3, 4, 6} : NonEmpty(row[c].value)

\* the first footer row of a sheet, Len + 1 when it has none
FooterAt(rows) ==
    IF \E k \in DOMAIN rows : rows[k][1].merged
    THEN CHOOSE k \in DOMAIN rows : rows[k][1].merged /\ \A h \in 1..(k - 1) : ~rows[h][1].merged
    ELSE Len(rows) + 1

IsStateStart(row) == get_state_code(row[0].value) # ""

Called(f) == fn = f /\ pc = "returned"

----------------------------------------------------------------------------
(* Claims *)

\* C1: when the scan stops at the footer row, every state-start row before
\* it, the last one included, has its block in the output.
C1_FooterFlushesLastBlock ==
    (pc = "print" /\ FooterAt(sheet) <= Len(sheet)) =>
        \A k \in 1..(FooterAt(sheet) - 1) :
            IsStateStart(sheet[k]) => HasKey(states, get_state_code(sheet[k][0].value))

\* C2: a block of exactly one row is extracted without error; its notes are
\* the row's non-empty notes cells and its note_codes the codes of column 0.
C2_OneRowBlockExtracts ==
    (Called("process_state") /\ Len(arg) = 1 /\ NoMalformedCell(arg)) =>
        /\ ret.exc = ""
        /\ ret.data.note_codes = CodesOf(arg[1][0].value)
        /\ SubSeq(ret.data.notes, 1, Len(RowNotes(arg[1]))) = RowNotes(arg[1])

\* C3: with a year-named sheet and no malformed cell in the selected sheet,
\* the run does not fail, and a finished run has handed the Dataset to the
\* writer, whichever states the sheet holds.
C3_RunSucceeds ==
    (YearNames(sheetnames) # <<>> /\ NoMalformedCell(sheet)) =>
        /\ pc \notin {"exit1", "raised"}
        /\ pc = "done" => written = <<results>>

\* C4: an empty cell and "N/A" in any case, with or without periods and
\* blanks, give {value: null, credit: false}.
C4_EmptyOrNAIsNull ==
    (Called("clean_deduction") /\ IsEmptyOrNA(arg)) => ret = Entry(None, FALSE)

\* C5: a text with the word "credit" in any letter case around an integer
\* amount gives {value: the integer, credit: true}.
C5_CreditAnyCase ==
    (Called("clean_deduction") /\ IsCreditText(arg) /\ CreditAmount(arg.s).ok) =>
        ret = Entry(IntV(CreditAmount(arg.s).n), TRUE)

\* C6: every casing, period and footnote-marker variant of a name of the
\* table resolves to the non-empty code of the plain name.
C6_VariantsResolveAlike ==
    Called("get_state_code") =>
        \A n \in TableNames :
            (arg.t = "str" /\ arg.s \in Variants(n)) =>
                ret # "" /\ ret = get_state_code(StrV(n))

\* C7: the codes are the trimmed, comma-separated pieces between the first
\* "(" and its ")"; text after that ")" adds nothing; no "(" gives no code.
C7_CodesBetweenParens ==
    Called("extract_codes") => ret = CodesOf(arg[0].value)

\* C8: in every record process_state returns, single and married have the
\* same length, and both are empty on the special-case branch.
C8_EqualLengths ==
    (Called("process_state") /\ ret.exc = "") =>
        /\ Len(ret.data.single) = Len(ret.data.married)
        /\ arg[1][2].merged => (ret.data.single = <<>> /\ ret.data.married = <<>>)

\* C8 witness: a standard-branch record with two rungs, one of them from a
\* row that sets no married column, and a row skipped.
C8_Witness ==
    /\ Called("process_state")
    /\ ret.exc = ""
    /\ ~arg[1][2].merged
    /\ Len(ret.data.single) = 2
    /\ Len(arg) = 3
    /\ \E k \in DOMAIN arg : arg[k] = R_single

\* C9: no block is flushed for rows that precede the first state-start row,
\* so the output never has an entry under the empty key.
C9_NoEmptyKey == ~HasKey(states, "")

\* C10: on the standard branch the rungs are those of the rows with a
\* non-empty key column (a 0 included), in row order.
C10_RungPerPopulatedRow ==
    (Called("process_state") /\ ret.exc = "" /\ ~arg[1][2].merged) =>
        LET data == SelectSeq(arg, Populated)
        IN  /\ ret.data.single = [k \in DOMAIN data |-> SingleRung(data[k])]
            /\ ret.data.married = [k \in DOMAIN data |-> MarriedRung(data[k])]

====
